---- MODULE Spec2Model ----
(***************************************************************************)
(* A model of kalite/main/management/commands/khanload.py: the pipeline    *)
(* that turns the Khan Academy topic tree into the KA Lite topic tree, the *)
(* node cache and the knowledge map.                                       *)
(*                                                                         *)
(* A node is a record.  Python's None / "key absent" for an optional value *)
(* is the empty tuple <<>>, a present value v is <<v>>.  A node's          *)
(* children are a sequence (absent and empty read the same everywhere the  *)
(* code looks at them: node.get("children", [])).                          *)
(***************************************************************************)
EXTENDS Integers, Sequences, FiniteSets, TLC

VARIABLES
    topictree,                \* the tree, mutated in place pass by pass
    related_exercise,         \* rebuild_topictree's dict: video id -> stub or None
    slugs_deleted,            \* the list recurse_nodes_to_delete_exercise returned
    node_cache,               \* generate_node_cache's result
    knowledge_map,            \* rebuild_knowledge_map's knowledge_map
    knowledge_topics,         \* rebuild_knowledge_map's knowledge_topics
    pc,                       \* the position in Command.handle
    run,                      \* 1: the command's run; 2: the reconciler run again
    first,                    \* what the first reconciler run returned
    remove_unknown_exercises, \* input: not options["keep_new_exercises"]
    existing,                 \* input: exercise slugs whose exercise_path file exists
    related_videos,           \* input: exercise name -> readable_ids served for it
    maplayout,                \* input: the map served for api/v1/maplayout
    khan_topictree            \* input: the tree served for api/v1/topictree

vars == <<topictree, related_exercise, slugs_deleted, node_cache, knowledge_map,
          knowledge_topics, pc, run, first, remove_unknown_exercises, existing,
          related_videos, maplayout, khan_topictree>>

inputs == <<remove_unknown_exercises, existing, related_videos, maplayout, khan_topictree>>

None == <<>>
Some(v) == <<v>>

(***************************************************************************)
(* Module-level tables.                                                    *)
(***************************************************************************)
kind_blacklist == {"None", "Separator", "CustomStack", "Scratchpad", "Article"}

slug_blacklist ==
    {"new-and-noteworthy", "talks-and-interviews", "coach-res", "partner-content", "cs",
     "ordering_improper_fractions_and_mixed_numbers", "ordering_numbers",
     "conditional_statements_2"}

\* Attributes of the whitelist that the model carries, per kind.  "children" and
\* "in_knowledge_map" are on Topic's list only; "id" is on Topic's list only.
whitelist_children(kind) == kind = "Topic"
whitelist_id(kind) == kind = "Topic"

\* utils.topic_tools.kind_slugs: the path segment of a kind.
kind_slugs(kind) ==
    CASE kind = "Video" -> "v/"
      [] kind = "Exercise" -> "e/"
      [] OTHER -> ""

\* utils.topic_tools.multipath_kinds
multipath_kinds == {"Exercise", "Video"}

(***************************************************************************)
(* Sequence helpers.                                                       *)
(***************************************************************************)
RECURSIVE SeqToSet(_)
SeqToSet(s) == IF s = <<>> THEN {} ELSE {Head(s)} \cup SeqToSet(Tail(s))

\* del lst[i], i a 0-based Python index, as a 1-based position here.
DelAt(s, i) == SubSeq(s, 1, i - 1) \o SubSeq(s, i + 1, Len(s))

\* for i in reversed(children_to_delete): del children[i]
\* (idx is ascending, as the enumerate loop appended it).
RECURSIVE DeleteReversed(_, _)
DeleteReversed(s, idx) ==
    IF idx = <<>> THEN s
    ELSE DeleteReversed(DelAt(s, idx[Len(idx)]), SubSeq(idx, 1, Len(idx) - 1))

(***************************************************************************)
(* rebuild_topictree.recurse_nodes: the normalizer.  Of the whitelist the   *)
(* model keeps what the passes read: children and in_knowledge_map are a   *)
(* Topic's alone, id is a Topic's alone.  Every node is taken to have its  *)
(* title field, and every Video the fields that line 149 prints.           *)
(* A raw node: [kind, key, id, title, description, duration,               *)
(*              in_knowledge_map, children] where key is the value of the  *)
(* kind's slug field (node_slug / readable_id / name), None when the field *)
(* is missing; description is an optional string attribute; duration       *)
(* stands for a whitelisted attribute that is not a string.                *)
(* The result: [err, node, kinds, rel]; err is a raised KeyError.          *)
(***************************************************************************)
Stub(node, key, path) == [slug |-> key, title |-> node.title, path |-> path]

\* for video_id in related_video_readable_ids: related_exercise[video_id] = exercise
RECURSIVE RecordRelated(_, _, _)
RecordRelated(rel, vids, exercise) ==
    IF vids = <<>> THEN rel
    ELSE RecordRelated([v \in DOMAIN rel \cup {Head(vids)} |->
                           IF v = Head(vids) THEN Some(exercise) ELSE rel[v]],
                       Tail(vids), exercise)

Failed(rel) == [err |-> TRUE, node |-> None, kinds |-> {}, rel |-> rel]

canonical_slug(key) == IF key # "root" THEN key ELSE ""

\* A mutant of node_path: the kind's segment is left out.
node_path_without_segment(path, kind, slug) == path \o slug \o "/"

node_path(path, kind, slug) == path \o kind_slugs(kind) \o slug \o "/"

RECURSIVE recurse_nodes(_, _, _)
RECURSIVE recurse_children(_, _, _, _, _, _, _)

\* The loop of lines 140-153 from child i on: acc holds the children already
\* recursed into (by position), todel the indices marked, kinds and rel the
\* accumulated values.
recurse_children(children, i, ppath, acc, todel, kinds, rel) ==
    IF i > Len(children)
    THEN [err |-> FALSE, children |-> DeleteReversed(acc, todel), kinds |-> kinds, rel |-> rel]
    ELSE LET child == children[i]
         IN IF child.kind \in kind_blacklist
            THEN recurse_children(children, i + 1, ppath, Append(acc, child),
                                  Append(todel, i), kinds, rel)
            ELSE IF child.key = None                      \* child[slug_key[child_kind]]
            THEN [err |-> TRUE, children |-> acc, kinds |-> kinds, rel |-> rel]
            ELSE IF child.key[1] \in slug_blacklist
            THEN recurse_children(children, i + 1, ppath, Append(acc, child),
                                  Append(todel, i), kinds, rel)
            ELSE LET r == recurse_nodes(child, ppath, rel)
                 IN IF r.err
                    THEN [err |-> TRUE, children |-> acc, kinds |-> kinds, rel |-> r.rel]
                    ELSE recurse_children(children, i + 1, ppath, Append(acc, r.node),
                                          todel, kinds \cup r.kinds, r.rel)

recurse_nodes(node, path, rel) ==
    LET kind == node.kind
    IN IF node.key = None /\ ~whitelist_id(kind)
       THEN Failed(rel)                      \* node["id"] was deleted by the whitelist
       ELSE
       LET key == IF node.key = None THEN node.id ELSE node.key[1]
           slug == canonical_slug(key)
           npath == node_path(path, kind, slug)
           vids == IF kind = "Exercise" THEN related_videos[key] ELSE <<>>
           rel1 == IF kind = "Exercise"
                   THEN RecordRelated(rel, vids, Stub(node, key, npath))
                   ELSE rel
           kids == IF whitelist_children(kind) THEN node.children ELSE <<>>
           rc == recurse_children(kids, 1, npath, <<>>, <<>>, {kind}, rel1)
       IN IF rc.err
          THEN Failed(rc.rel)
          ELSE [err |-> FALSE,
                node |-> [kind |-> kind,
                          key |-> key,
                          slug |-> slug,
                          id |-> slug,
                          path |-> npath,
                          title |-> node.title,
                          description |-> node.description,
                          duration |-> node.duration,
                          in_knowledge_map |-> (kind = "Topic" /\ node.in_knowledge_map),
                          children |-> rc.children,
                          contains |-> IF kind = "Topic" THEN rc.kinds ELSE {},
                          related_exercise |-> None,
                          related_video_readable_ids |-> vids],
                kinds |-> rc.kinds,
                rel |-> rc.rel]

(***************************************************************************)
(* rebuild_topictree.recurse_nodes_to_delete_exercise: the exercise pruner.*)
(* The result: [node, deleted], deleted the returned list of slugs.        *)
(***************************************************************************)
\* A mutant of exercise_exists: every exercise is taken to have its file.
exercise_always_exists(slug) == TRUE

\* os.path.exists(exercise_path % slug)
exercise_exists(slug) == slug \in existing

\* any([ch["kind"] == "Exercise" or "Exercise" in ch.get("contains", []) ...])
any_exercise(children) ==
    \E i \in 1..Len(children) :
        children[i].kind = "Exercise" \/ "Exercise" \in children[i].contains

RECURSIVE recurse_nodes_to_delete_exercise(_)
RECURSIVE delete_exercise_children(_, _, _, _, _)

\* The loop of lines 179-194 from child ci on.
delete_exercise_children(children, ci, acc, todel, deleted) ==
    IF ci > Len(children)
    THEN [children |-> DeleteReversed(acc, todel), deleted |-> deleted]
    ELSE LET child == children[ci]
         IN IF child.kind = "Exercise"
            THEN delete_exercise_children(children, ci + 1, Append(acc, child),
                     IF ~exercise_exists(child.slug) THEN Append(todel, ci) ELSE todel,
                     deleted)
            ELSE IF child.children # <<>>
            THEN LET r == recurse_nodes_to_delete_exercise(child)
                     c1 == r.node
                     c2 == IF c1.children # <<>> /\ ~any_exercise(c1.children)
                           THEN [c1 EXCEPT !.contains = @ \ {"Exercise"}]
                           ELSE c1
                 IN delete_exercise_children(children, ci + 1, Append(acc, c2),
                        IF c1.children = <<>> THEN Append(todel, ci) ELSE todel,
                        deleted \o r.deleted)
            ELSE delete_exercise_children(children, ci + 1, Append(acc, child), todel, deleted)

recurse_nodes_to_delete_exercise(node) ==
    IF node.kind # "Topic"
    THEN [node |-> node, deleted |-> <<>>]
    ELSE LET r == delete_exercise_children(node.children, 1, <<>>, <<>>, <<>>)
         IN [node |-> [node EXCEPT !.children = r.children], deleted |-> r.deleted]

\* Lines 205-207: for vid, ex in related_exercise.items(): ...
null_deleted(rel, deleted) ==
    [v \in DOMAIN rel |->
        IF rel[v] # None /\ rel[v][1].slug \in SeqToSet(deleted) THEN None ELSE rel[v]]

(***************************************************************************)
(* rebuild_topictree.recurse_nodes_to_add_related_exercise: the annotator. *)
(***************************************************************************)
\* related_exercise.get(slug, None)
rel_get(rel, slug) == IF slug \in DOMAIN rel THEN rel[slug] ELSE None

RECURSIVE recurse_nodes_to_add_related_exercise(_, _)
recurse_nodes_to_add_related_exercise(node, rel) ==
    LET n1 == IF node.kind = "Video"
              THEN [node EXCEPT !.related_exercise = rel_get(rel, node.slug)]
              ELSE node
    IN [n1 EXCEPT !.children =
            [i \in 1..Len(node.children) |->
                recurse_nodes_to_add_related_exercise(node.children[i], rel)]]

(***************************************************************************)
(* rebuild_topictree.recurse_nodes_to_remove_childless_nodes.              *)
(***************************************************************************)
RECURSIVE recurse_nodes_to_remove_childless_nodes(_)
RECURSIVE remove_childless_children(_, _, _, _)

\* A mutant of remove_childless_children: a child is tested before the
\* recursion into it, not after.
remove_childless_before_recursing(children, ci, acc, todel) ==
    IF ci > Len(children)
    THEN DeleteReversed(acc, todel)
    ELSE LET child == children[ci]
         IN IF child.kind # "Topic"
            THEN remove_childless_children(children, ci + 1, Append(acc, child), todel)
            ELSE remove_childless_children(children, ci + 1,
                    Append(acc, recurse_nodes_to_remove_childless_nodes(child)),
                    IF child.children = <<>> THEN Append(todel, ci) ELSE todel)

\* The loop of lines 227-236 from child ci on.
remove_childless_children(children, ci, acc, todel) ==
    IF ci > Len(children)
    THEN DeleteReversed(acc, todel)
    ELSE LET child == children[ci]
         IN IF child.kind # "Topic"
            THEN remove_childless_children(children, ci + 1, Append(acc, child), todel)
            ELSE LET c1 == recurse_nodes_to_remove_childless_nodes(child)
                 IN remove_childless_children(children, ci + 1, Append(acc, c1),
                        IF c1.children = <<>> THEN Append(todel, ci) ELSE todel)

recurse_nodes_to_remove_childless_nodes(node) ==
    [node EXCEPT !.children = remove_childless_children(node.children, 1, <<>>, <<>>)]

(***************************************************************************)
(* generate_node_cache.  The cache maps a kind to a function from slug to  *)
(* the node's summary; a kind's table exists once a node of the kind was   *)
(* seen.  The result of the traversal: [err, cache], err a failed assert.  *)
(***************************************************************************)
\* node_cache.get(kind, {})
cache_table(cache, kind) == IF kind \in DOMAIN cache THEN cache[kind] ELSE <<>>

cache_store(cache, kind, slug, summary) ==
    [k \in DOMAIN cache \cup {kind} |->
        IF k = kind
        THEN [s \in DOMAIN cache_table(cache, kind) \cup {slug} |->
                 IF s = slug THEN summary ELSE cache[kind][s]]
        ELSE cache[k]]

\* The keys of a node's dict other than path / paths / children: the optional
\* description is the one the model lets be absent.
shared_keys(n) ==
    {"kind", "key", "slug", "id", "title", "duration", "related_exercise",
     "related_video_readable_ids"}
        \cup (IF n.description # None THEN {"description"} ELSE {})

\* isinstance(node[key], basestring): the attributes whose value is a string.
string_keys == {"kind", "key", "slug", "id", "title", "description"}

\* A mutant of same_as_stored: the values are not compared.
same_keys_as_stored(node, stored) == shared_keys(node) = shared_keys(stored)

\* Lines 410-418: the two asserts on a node that arrives at a stored slug.
same_as_stored(node, stored) ==
    /\ shared_keys(node) = shared_keys(stored)
    /\ \A k \in shared_keys(node) \cap string_keys : node[k] = stored[k]

\* Lines 426-433: copy, drop children, path -> paths for a multipath kind.
node_summary(node) ==
    IF node.kind \in multipath_kinds
    THEN [f \in (DOMAIN node \ {"children", "path"}) \cup {"paths"} |->
             IF f = "paths" THEN <<node.path>> ELSE node[f]]
    ELSE [f \in DOMAIN node \ {"children"} |-> node[f]]

RECURSIVE cache_recurse_nodes(_, _)
RECURSIVE cache_recurse_children(_, _, _)

cache_recurse_children(children, i, st) ==
    IF st.err \/ i > Len(children) THEN st
    ELSE cache_recurse_children(children, i + 1, cache_recurse_nodes(children[i], st.cache))

cache_recurse_nodes(node, cache) ==
    LET kind == node.kind
        table == cache_table(cache, kind)
    IN IF node.slug \in DOMAIN table
       THEN IF kind \notin multipath_kinds \/ ~same_as_stored(node, table[node.slug])
            THEN [err |-> TRUE, cache |-> cache]
            ELSE cache_recurse_children(node.children, 1,
                    [err |-> FALSE,
                     cache |-> cache_store(cache, kind, node.slug,
                                  [table[node.slug] EXCEPT !.paths = Append(@, node.path)])])
       ELSE cache_recurse_children(node.children, 1,
                [err |-> FALSE,
                 cache |-> cache_store(cache, kind, node.slug, node_summary(node))])

generate_node_cache(tree) == cache_recurse_nodes(tree, <<>>)

\* create_youtube_id_to_slug_map reads node_cache['Video'] unconditionally (a
\* KeyError when the tree holds no Video).  Each video's youtube_id is taken to
\* be its own, so its assert does not fail.
create_youtube_id_to_slug_map_fails(cache) == "Video" \notin DOMAIN cache

(***************************************************************************)
(* utils.topic_tools helpers used by rebuild_knowledge_map.                *)
(***************************************************************************)
\* get_topic_by_path(path, root_node): the node at that path, None if there is none.
RECURSIVE get_topic_by_path(_, _)
RECURSIVE first_by_path(_, _, _)
first_by_path(path, children, i) ==
    IF i > Len(children) THEN None
    ELSE LET r == get_topic_by_path(path, children[i])
         IN IF r # None THEN r ELSE first_by_path(path, children, i + 1)

get_topic_by_path(path, node) ==
    IF node.path = path THEN Some(node) ELSE first_by_path(path, node.children, 1)

\* get_all_leaves(topic_node, leaf_type): the leaves of the kind, in tree order.
RECURSIVE get_all_leaves(_, _)
RECURSIVE leaves_of_children(_, _, _)
leaves_of_children(children, i, leaf_type) ==
    IF i > Len(children) THEN <<>>
    ELSE get_all_leaves(children[i], leaf_type) \o leaves_of_children(children, i + 1, leaf_type)

get_all_leaves(node, leaf_type) ==
    IF node.kind = "Topic"
    THEN leaves_of_children(node.children, 1, leaf_type)
    ELSE IF node.kind = leaf_type THEN <<node>> ELSE <<>>

(***************************************************************************)
(* rebuild_knowledge_map.  knowledge_map is [topics, polylines]: topics a  *)
(* function from slug to [x, y], polylines a sequence of paths, a path a   *)
(* sequence of points <<x, y>>.  The icon_url that download_kmap_icons     *)
(* writes on each surviving topic is not carried.                          *)
(***************************************************************************)
Restrict(f, S) == [k \in DOMAIN f \cap S |-> f[k]]

\* topictree_node["in_knowledge_map"] = False, on the node get_topic_by_path found.
RECURSIVE clear_flag_at(_, _)
RECURSIVE clear_flag_in_children(_, _, _)
clear_flag_in_children(path, children, i) ==
    IF i > Len(children) THEN [found |-> FALSE, children |-> children]
    ELSE LET r == clear_flag_at(path, children[i])
         IN IF r.found
            THEN [found |-> TRUE, children |-> [children EXCEPT ![i] = r.node]]
            ELSE clear_flag_in_children(path, children, i + 1)

clear_flag_at(path, node) ==
    IF node.path = path
    THEN [found |-> TRUE, node |-> [node EXCEPT !.in_knowledge_map = FALSE]]
    ELSE LET r == clear_flag_in_children(path, node.children, 1)
         IN [found |-> r.found, node |-> [node EXCEPT !.children = r.children]]

\* A mutant of cache_clear_flag: the summary is left as it was.
cache_keep_flag(cache, slug) == cache

\* node_cache["Topic"][slug]["in_knowledge_map"] = False
cache_clear_flag(cache, slug) ==
    [cache EXCEPT !["Topic"][slug].in_knowledge_map = FALSE]

\* The test of lines 268-275 on one slug of the map: TRUE when the slug is dropped.
scrub_drops(cache, tree, slug) ==
    LET topictree_node == get_topic_by_path(cache["Topic"][slug].path, tree)
    IN \/ topictree_node = None
       \/ topictree_node[1].children = <<>>
       \/ "Exercise" \notin topictree_node[1].contains

RECURSIVE scrub_slugs(_, _)
\* The loop of scrub_knowledge_map over the slugs left in todo;
\* st = [err, topics, cache, tree].
scrub_slugs(todo, st) ==
    IF st.err \/ todo = {} THEN st
    ELSE LET slug == CHOOSE s \in todo : TRUE
         IN IF slug \notin DOMAIN cache_table(st.cache, "Topic")
            THEN [st EXCEPT !.err = TRUE]            \* node_cache["Topic"][slug]
            ELSE IF scrub_drops(st.cache, st.tree, slug)
            THEN scrub_slugs(todo \ {slug},
                    [err |-> FALSE,
                     topics |-> Restrict(st.topics, DOMAIN st.topics \ {slug}),
                     cache |-> cache_clear_flag(st.cache, slug),
                     tree |-> clear_flag_at(st.cache["Topic"][slug].path, st.tree).node])
            ELSE scrub_slugs(todo \ {slug}, st)

scrub_knowledge_map(km, cache, tree) ==
    scrub_slugs(DOMAIN km.topics,
                [err |-> FALSE, topics |-> km.topics, cache |-> cache, tree |-> tree])

RECURSIVE recurse_nodes_to_extract_knowledge_map(_, _)
RECURSIVE extract_children(_, _, _, _)

\* The loop of lines 311-312; st = [err, topics, kt, cache], acc the children so far.
extract_children(children, i, acc, st) ==
    IF i > Len(children) THEN [st |-> st, children |-> acc]
    ELSE IF st.err \/ children[i].kind # "Topic"
    THEN extract_children(children, i + 1, Append(acc, children[i]), st)
    ELSE LET r == recurse_nodes_to_extract_knowledge_map(children[i], st)
         IN extract_children(children, i + 1, Append(acc, r.node), r.st)

recurse_nodes_to_extract_knowledge_map(node, st) ==
    LET slug == node.slug
        inmap == slug \in DOMAIN st.topics
        leaves == get_all_leaves(node, "Exercise")
        without == Restrict(st.topics, DOMAIN st.topics \ {slug})
        flagged == node.in_knowledge_map
        \* what the node's own block (lines 291-309) leaves behind
        own == IF flagged
               THEN IF leaves = <<>>
                    THEN [err |-> ~inmap,            \* del knowledge_map["topics"][slug]
                          topics |-> without,
                          kt |-> Restrict(st.kt, DOMAIN st.kt \ {slug}),
                          cache |-> cache_clear_flag(st.cache, slug),
                          flag |-> FALSE]
                    ELSE [err |-> FALSE,
                          topics |-> st.topics,
                          kt |-> [s \in DOMAIN st.kt \cup {slug} |->
                                     IF s = slug THEN leaves ELSE st.kt[s]],
                          cache |-> IF inmap THEN st.cache ELSE cache_clear_flag(st.cache, slug),
                          flag |-> inmap]
               ELSE [err |-> FALSE, topics |-> without, kt |-> st.kt, cache |-> st.cache,
                     flag |-> FALSE]
        st1 == [err |-> own.err, topics |-> own.topics, kt |-> own.kt, cache |-> own.cache]
        rc == extract_children(node.children, 1, <<>>, st1)
    IN IF node.kind # "Topic"                         \* assert node["kind"] == "Topic"
       THEN [st |-> [st EXCEPT !.err = TRUE], node |-> node]
       ELSE [st |-> rc.st,
             node |-> [node EXCEPT !.in_knowledge_map = own.flag, !.children = rc.children]]

\* all_topic_points
all_topic_points(topics) == {<<topics[s].x, topics[s].y>> : s \in DOMAIN topics}

\* A mutant of polyline_orphaned: only a path with no matched point counts.
polyline_all_orphaned(path, points) ==
    path # <<>> /\ \A i \in 1..Len(path) : path[i] \notin points

\* any(["x" for pt in polyline["path"] if (pt["x"], pt["y"]) not in all_topic_points])
polyline_orphaned(path, points) == \E i \in 1..Len(path) : path[i] \notin points

RECURSIVE polylines_to_delete(_, _, _)
polylines_to_delete(polylines, li, points) ==
    IF li > Len(polylines) THEN <<>>
    ELSE (IF polyline_orphaned(polylines[li], points) THEN <<li>> ELSE <<>>)
            \o polylines_to_delete(polylines, li + 1, points)

clean_orphaned_polylines(km) ==
    [km EXCEPT !.polylines =
        DeleteReversed(@, polylines_to_delete(@, 1, all_topic_points(km.topics)))]

(***************************************************************************)
(* The inputs: the raw tree served for api/v1/topictree, the exercise      *)
(* files on disk, the related videos served per exercise, the map layout.  *)
(***************************************************************************)
MaxNodes == 4       \* nodes below the root in the trees of InitStructure
MaxPolyWeight == 6  \* polylines plus their points in the maps of InitPolylines

RawTopic(slug, flag, children) ==
    [kind |-> "Topic", key |-> Some(slug), id |-> slug, title |-> "topic",
     description |-> None, duration |-> 0, in_knowledge_map |-> flag,
     children |-> children]

RawLeaf(kind, key, title, description, duration) ==
    [kind |-> kind, key |-> key, id |-> "x1", title |-> title,
     description |-> description, duration |-> duration, in_knowledge_map |-> FALSE,
     children |-> <<>>]

Video(slug) == RawLeaf("Video", Some(slug), "title", None, 1)
Exercise(slug) == RawLeaf("Exercise", Some(slug), "title", None, 1)

RawRoot(flag, children) == RawTopic("root", flag, children)

\* The labelled ordered forests of n nodes: a leaf is a video, an exercise or a
\* topic without children, an inner node a topic.
StructureLeaves == {Video("v1"), Exercise("e1"), Exercise("e2"), RawTopic("t", TRUE, <<>>)}

RECURSIVE Forests(_)
RECURSIVE Trees(_)
Trees(n) ==
    IF n = 1 THEN StructureLeaves
    ELSE {RawTopic("t", TRUE, f) : f \in Forests(n - 1)}

Forests(n) ==
    IF n = 0 THEN {<<>>}
    ELSE UNION {{<<t>> \o f : t \in Trees(k), f \in Forests(n - k)} : k \in 1..n}

\* Topics get their slugs in preorder: t1, t2, ...
RECURSIVE NameTopics(_, _)
RECURSIVE NameTopicsIn(_, _, _, _)
NameTopicsIn(children, i, acc, next) ==
    IF i > Len(children) THEN [children |-> acc, next |-> next]
    ELSE LET r == NameTopics(children[i], next)
         IN NameTopicsIn(children, i + 1, Append(acc, r.node), r.next)

NameTopics(node, next) ==
    IF node.kind # "Topic" THEN [node |-> node, next |-> next]
    ELSE LET slug == "t" \o ToString(next)
             r == NameTopicsIn(node.children, 1, <<>>, next + 1)
         IN [node |-> [node EXCEPT !.key = Some(slug), !.id = slug, !.children = r.children],
             next |-> r.next]

StructureTrees ==
    {RawRoot(FALSE, NameTopicsIn(f, 1, <<>>, 1).children) :
        f \in UNION {Forests(n) : n \in 0..MaxNodes}}

\* The map layout: each slug has its own point.
MapPoint(slug) ==
    CASE slug = "t1" -> [x |-> 0, y |-> 0]
      [] slug = "t2" -> [x |-> 1, y |-> 0]
      [] OTHER -> [x |-> 2, y |-> 2]

MapLayout(slugs, polylines) ==
    [topics |-> [s \in slugs |-> MapPoint(s)], polylines |-> polylines]

Pt(slug) == <<MapPoint(slug).x, MapPoint(slug).y>>

RelatedA == [e \in {"e1", "e2", "root"} |-> IF e = "e1" THEN <<"v1">> ELSE <<"v2", "v1">>]
RelatedB == [e \in {"e1", "e2", "root"} |-> IF e = "e1" THEN <<"v1">> ELSE <<>>]

\* The trees of InitMap: two topics beside or inside one another.
MapTrees(f0, f1, f2) ==
    {RawRoot(f0, <<Video("v1"), RawTopic("t1", f1, <<Exercise("e1")>>),
                   RawTopic("t2", f2, <<Exercise("e2")>>)>>),
     RawRoot(f0, <<Video("v1"), RawTopic("t1", f1,
                   <<RawTopic("t2", f2, <<Exercise("e1")>>), Exercise("e2")>>)>>),
     RawRoot(f0, <<RawTopic("t1", f1, <<Video("v1")>>),
                   RawTopic("t2", f2, <<Exercise("e1"), Exercise("e2")>>)>>)}

\* The tree of InitPolylines: t2 loses its place in the map with its exercise.
PolylineTree ==
    RawRoot(FALSE, <<RawTopic("t1", TRUE, <<Exercise("e1")>>),
                     RawTopic("t2", TRUE, <<Video("v1"), Exercise("e2")>>)>>)

\* The sequences of paths over the points of t1 and t2, a path weighing one
\* more than its points.
RECURSIVE PathsOfLen(_)
PathsOfLen(n) ==
    IF n = 0 THEN {<<>>}
    ELSE {Append(p, q) : p \in PathsOfLen(n - 1), q \in {Pt("t1"), Pt("t2")}}

RECURSIVE PolylinesOfWeight(_)
PolylinesOfWeight(w) ==
    IF w = 0 THEN {<<>>}
    ELSE UNION {{<<p>> \o rest : p \in PathsOfLen(k - 1), rest \in PolylinesOfWeight(w - k)} :
                   k \in 1..w}

\* The leaves of InitLeaves: same-slug nodes that differ, blacklisted children,
\* a child without its slug field.
VariedLeaves ==
    {RawLeaf(k, Some(s), t, d, n) :
        k \in {"Video"}, s \in {"v1"}, t \in {"a", "b"}, d \in {None, Some("d")}, n \in {1, 2}}
    \cup {RawLeaf("Exercise", Some("e1"), t, None, n) : t \in {"a", "b"}, n \in {1, 2}}
    \cup {RawLeaf("Separator", None, "a", None, 1),
          RawLeaf("Video", Some("cs"), "a", None, 1),
          RawLeaf("Video", None, "a", None, 1),
          RawLeaf("Exercise", Some("root"), "a", None, 1),
          [Video("v2") EXCEPT !.children = <<Video("v1")>>]}

InitCommon ==
    /\ related_exercise = <<>>
    /\ slugs_deleted = <<>>
    /\ node_cache = <<>>
    /\ knowledge_map = MapLayout({}, <<>>)
    /\ knowledge_topics = <<>>
    /\ pc = "start"
    /\ run = 1
    /\ first = None
    /\ topictree = khan_topictree

InitStructure ==
    /\ khan_topictree \in StructureTrees
    /\ remove_unknown_exercises \in BOOLEAN
    /\ existing = {"e1"}
    /\ related_videos = RelatedA
    /\ maplayout \in {MapLayout({"t1"}, <<<<Pt("t1")>>>>),
                      MapLayout({"t1", "t2"}, <<<<Pt("t1"), Pt("t2")>>>>)}

InitMap ==
    /\ \E f0, f1, f2 \in BOOLEAN : khan_topictree \in MapTrees(f0, f1, f2)
    /\ remove_unknown_exercises \in BOOLEAN
    /\ existing \in SUBSET {"e1", "e2"}
    /\ related_videos = RelatedA
    /\ \E slugs \in SUBSET {"t1", "t2", "t9"} :
          maplayout = MapLayout(slugs, <<<<Pt("t1"), Pt("t2")>>, <<Pt("t2")>>, <<Pt("t9")>>>>)

InitPolylines ==
    /\ khan_topictree = PolylineTree
    /\ remove_unknown_exercises = TRUE
    /\ existing \in {{"e1", "e2"}, {"e1"}}
    /\ related_videos = RelatedB
    /\ \E slugs \in SUBSET {"t1", "t2"}, w \in 0..MaxPolyWeight :
          \E polylines \in PolylinesOfWeight(w) : maplayout = MapLayout(slugs, polylines)

InitLeaves ==
    /\ \E a, b \in VariedLeaves, f \in BOOLEAN :
          khan_topictree \in {RawRoot(FALSE, <<a, RawTopic("t1", f, <<b>>)>>),
                         RawRoot(FALSE, <<RawTopic("t1", f, <<a, b>>)>>)}
    /\ remove_unknown_exercises \in BOOLEAN
    /\ existing = {"e1"}
    /\ related_videos \in {RelatedA, RelatedB}
    /\ maplayout = MapLayout({"t1"}, <<<<Pt("t1")>>>>)

\* A root without its node_slug field, over each of the varied leaves.
InitNoSlug ==
    /\ \E a \in VariedLeaves, id \in {"root", "top"} :
          khan_topictree = [RawRoot(FALSE, <<RawTopic("t1", TRUE, <<a>>)>>)
                               EXCEPT !.key = None, !.id = id]
    /\ remove_unknown_exercises \in BOOLEAN
    /\ existing = {"e1"}
    /\ related_videos = RelatedA
    /\ maplayout = MapLayout({"t1"}, <<<<Pt("t1")>>>>)

Init ==
    (InitStructure \/ InitMap \/ InitPolylines \/ InitLeaves \/ InitNoSlug) /\ InitCommon

(***************************************************************************)
(* The steps of Command.handle.                                            *)
(***************************************************************************)
\* rebuild_topictree, lines 97-162: recurse_nodes(topictree)
Normalize ==
    /\ pc = "start"
    /\ LET r == recurse_nodes(topictree, "", <<>>)
       IN IF r.err
          THEN /\ pc' = "abort:normalize"
               /\ UNCHANGED <<topictree, related_exercise>>
          ELSE /\ pc' = "normalized"
               /\ topictree' = r.node
               /\ related_exercise' = r.rel
    /\ UNCHANGED <<slugs_deleted, node_cache, knowledge_map, knowledge_topics, run, first>>
    /\ UNCHANGED inputs

\* rebuild_topictree, lines 203-207
PruneExercises ==
    /\ pc = "normalized"
    /\ pc' = "pruned"
    /\ IF remove_unknown_exercises
       THEN LET r == recurse_nodes_to_delete_exercise(topictree)
            IN /\ topictree' = r.node
               /\ slugs_deleted' = r.deleted
               /\ related_exercise' = null_deleted(related_exercise, r.deleted)
       ELSE UNCHANGED <<topictree, slugs_deleted, related_exercise>>
    /\ UNCHANGED <<node_cache, knowledge_map, knowledge_topics, run, first>>
    /\ UNCHANGED inputs

\* rebuild_topictree, line 218
AddRelatedExercise ==
    /\ pc = "pruned"
    /\ pc' = "annotated"
    /\ topictree' = recurse_nodes_to_add_related_exercise(topictree, related_exercise)
    /\ UNCHANGED <<related_exercise, slugs_deleted, node_cache, knowledge_map,
                   knowledge_topics, run, first>>
    /\ UNCHANGED inputs

\* rebuild_topictree, lines 240-247: the last pass, and the tree is returned
RemoveChildless ==
    /\ pc = "annotated"
    /\ pc' = "topictree"
    /\ topictree' = recurse_nodes_to_remove_childless_nodes(topictree)
    /\ UNCHANGED <<related_exercise, slugs_deleted, node_cache, knowledge_map,
                   knowledge_topics, run, first>>
    /\ UNCHANGED inputs

\* Command.handle, line 541
GenerateNodeCache ==
    /\ pc = "topictree"
    /\ LET r == generate_node_cache(topictree)
       IN IF r.err
          THEN pc' = "abort:node_cache" /\ UNCHANGED node_cache
          ELSE pc' = "cached" /\ node_cache' = r.cache
    /\ UNCHANGED <<topictree, related_exercise, slugs_deleted, knowledge_map,
                   knowledge_topics, run, first>>
    /\ UNCHANGED inputs

\* Command.handle, line 542
CreateYoutubeMap ==
    /\ pc = "cached"
    /\ pc' = IF create_youtube_id_to_slug_map_fails(node_cache) THEN "abort:youtube" ELSE "mapped"
    /\ UNCHANGED <<topictree, related_exercise, slugs_deleted, node_cache, knowledge_map,
                   knowledge_topics, run, first>>
    /\ UNCHANGED inputs

\* rebuild_knowledge_map, lines 256-281: the download (first run) and the scrub
Scrub ==
    /\ pc = "mapped"
    /\ LET km == IF run = 1 THEN maplayout ELSE knowledge_map
           r == scrub_knowledge_map(km, node_cache, topictree)
       IN IF r.err
          THEN /\ pc' = "abort:scrub"
               /\ UNCHANGED <<topictree, node_cache, knowledge_map>>
          ELSE /\ pc' = "scrubbed"
               /\ knowledge_map' = [km EXCEPT !.topics = r.topics]
               /\ node_cache' = r.cache
               /\ topictree' = r.tree
    /\ knowledge_topics' = <<>>
    /\ UNCHANGED <<related_exercise, slugs_deleted, run, first>>
    /\ UNCHANGED inputs

\* rebuild_knowledge_map, line 313
Extract ==
    /\ pc = "scrubbed"
    /\ LET r == recurse_nodes_to_extract_knowledge_map(topictree,
                    [err |-> FALSE, topics |-> knowledge_map.topics,
                     kt |-> knowledge_topics, cache |-> node_cache])
       IN IF r.st.err
          THEN /\ pc' = "abort:extract"
               /\ UNCHANGED <<topictree, node_cache, knowledge_map, knowledge_topics>>
          ELSE /\ pc' = "extracted"
               /\ topictree' = r.node
               /\ node_cache' = r.st.cache
               /\ knowledge_map' = [knowledge_map EXCEPT !.topics = r.st.topics]
               /\ knowledge_topics' = r.st.kt
    /\ UNCHANGED <<related_exercise, slugs_deleted, run, first>>
    /\ UNCHANGED inputs

\* rebuild_knowledge_map, lines 366-381: the polyline cleanup, and the return
CleanPolylines ==
    /\ pc = "extracted"
    /\ pc' = "returned"
    /\ knowledge_map' = clean_orphaned_polylines(knowledge_map)
    /\ UNCHANGED <<topictree, related_exercise, slugs_deleted, node_cache,
                   knowledge_topics, run, first>>
    /\ UNCHANGED inputs

\* The reconciler is run again on what its first run returned and left behind.
Rerun ==
    /\ pc = "returned"
    /\ run = 1
    /\ pc' = "mapped"
    /\ run' = 2
    /\ first' = Some([knowledge_map |-> knowledge_map, knowledge_topics |-> knowledge_topics,
                      topictree |-> topictree, node_cache |-> node_cache])
    /\ UNCHANGED <<topictree, related_exercise, slugs_deleted, node_cache, knowledge_map,
                   knowledge_topics>>
    /\ UNCHANGED inputs

Next ==
    \/ Normalize
    \/ PruneExercises
    \/ AddRelatedExercise
    \/ RemoveChildless
    \/ GenerateNodeCache
    \/ CreateYoutubeMap
    \/ Scrub
    \/ Extract
    \/ CleanPolylines
    \/ Rerun

Spec == Init /\ [][Next]_vars

(***************************************************************************)
(* Properties.                                                             *)
(***************************************************************************)
\* The nodes of a tree, in preorder.
RECURSIVE Nodes(_)
RECURSIVE NodesOf(_, _)
NodesOf(children, i) ==
    IF i > Len(children) THEN <<>> ELSE Nodes(children[i]) \o NodesOf(children, i + 1)

Nodes(node) == <<node>> \o NodesOf(node.children, 1)

NodeSet(node) == SeqToSet(Nodes(node))

Descendants(node) == SeqToSet(NodesOf(node.children, 1))

ExerciseTable == DOMAIN cache_table(node_cache, "Exercise")

\* C1: after rebuild_topictree with exercise pruning on and generate_node_cache,
\* every Video's related_exercise is None or a stub whose slug is a key of the
\* node cache's Exercise table.
C1_RelatedExerciseResolves ==
    (pc = "cached" /\ remove_unknown_exercises) =>
        \A n \in NodeSet(topictree) :
            n.kind = "Video" =>
                \/ n.related_exercise = None
                \/ n.related_exercise[1].slug \in ExerciseTable

\* The kinds of the leaf nodes below a topic.
LeafKinds(node) == {n.kind : n \in {d \in Descendants(node) : d.children = <<>>}}

\* C2: in the tree rebuild_topictree returns, every Topic's contains is exactly
\* the set of kinds of the leaf nodes below it.
C2_ContainsIsLeafKinds ==
    pc = "topictree" =>
        \A n \in NodeSet(topictree) : n.kind = "Topic" => n.contains = LeafKinds(n)

\* path and id of every node below node, given the node's own path.
RECURSIVE PathsBuilt(_, _)
PathsBuilt(node, parent_path) ==
    /\ node.path = parent_path \o kind_slugs(node.kind) \o node.slug \o "/"
    /\ node.id = node.slug
    /\ \A i \in 1..Len(node.children) : PathsBuilt(node.children[i], node.path)

\* C3: after the normalizer every node's path is its parent's path, the kind's
\* segment, its slug and "/", its id is its slug, and a root served with the
\* slug "root" has slug "" and the path "/".
C3_PathFromParent ==
    pc = "normalized" =>
        /\ PathsBuilt(topictree, "")
        /\ (khan_topictree.key = Some("root") => (topictree.slug = "" /\ topictree.path = "/"))

C3_Witness ==
    /\ pc = "normalized"
    /\ \E n \in NodeSet(topictree) : n.path = "/t1/t2/e/e2/"
    /\ \E n \in NodeSet(topictree) : n.path = "/v/v1/"

\* The occurrences of nodes in the tree, in the order generate_node_cache visits them.
Occ == Nodes(topictree)

SameSlug(i, j) == Occ[i].kind = Occ[j].kind /\ Occ[i].slug = Occ[j].slug

Multipath(i) == Occ[i].kind \in {"Video", "Exercise"}

\* The non-path fields of a node as the cache keeps them.
NonPathFields(n) == [f \in DOMAIN n \ {"path", "children"} |-> n[f]]

\* The string-valued non-path fields, and which optional fields are present.
StringFields(n) == <<n.kind, n.key, n.slug, n.id, n.title, n.description>>
FieldNames(n) == IF n.description = None THEN {} ELSE {"description"}

PathsOfSlug(kind, slug) ==
    LET occ == SelectSeq(Occ, LAMBDA n : n.kind = kind /\ n.slug = slug)
    IN [i \in 1..Len(occ) |-> occ[i].path]

FirstOfSlug(kind, slug) ==
    SelectSeq(Occ, LAMBDA n : n.kind = kind /\ n.slug = slug)[1]

\* C4 as claimed: when generate_node_cache does not abort, any two multipath
\* nodes of one slug are equal in every non-path field.
C4_AllFieldsAgree ==
    pc = "cached" =>
        \A i, j \in 1..Len(Occ) :
            (i < j /\ SameSlug(i, j) /\ Multipath(i)) =>
                NonPathFields(Occ[i]) = NonPathFields(Occ[j])

\* C4 as amended: generate_node_cache aborts exactly when two nodes of one kind
\* and slug are not of a multipath kind, or differ in their field names or in a
\* string-valued non-path field; otherwise the stored summary keeps the first
\* occurrence's fields and its paths lists every occurrence's path in order.
C4_StringFieldsAgree ==
    /\ pc = "cached" =>
          /\ \A i, j \in 1..Len(Occ) :
                (i < j /\ SameSlug(i, j)) =>
                    /\ Multipath(i)
                    /\ FieldNames(Occ[i]) = FieldNames(Occ[j])
                    /\ StringFields(Occ[i]) = StringFields(Occ[j])
          /\ \A kind \in DOMAIN node_cache \cap {"Video", "Exercise"} :
                \A slug \in DOMAIN node_cache[kind] :
                    /\ node_cache[kind][slug].paths = PathsOfSlug(kind, slug)
                    /\ [f \in DOMAIN node_cache[kind][slug] \ {"paths"} |->
                           node_cache[kind][slug][f]]
                         = NonPathFields(FirstOfSlug(kind, slug))
    /\ pc = "abort:node_cache" =>
          \E i, j \in 1..Len(Occ) :
              /\ i < j
              /\ SameSlug(i, j)
              /\ \/ ~Multipath(i)
                 \/ FieldNames(Occ[i]) # FieldNames(Occ[j])
                 \/ StringFields(Occ[i]) # StringFields(Occ[j])

\* Two videos of one slug that differ in duration alone were merged into one summary.
C4_Witness ==
    /\ pc = "cached"
    /\ \E i, j \in 1..Len(Occ) :
          /\ i < j
          /\ SameSlug(i, j)
          /\ Occ[i].kind = "Video"
          /\ Occ[i].duration # Occ[j].duration
          /\ Len(node_cache["Video"][Occ[i].slug].paths) = 2

Topics(tree) == {n \in NodeSet(tree) : n.kind = "Topic"}

HasExerciseBelow(node) == \E d \in Descendants(node) : d.kind = "Exercise"

\* C5: when rebuild_knowledge_map returns, the keys of knowledge_topics are the
\* slugs left in knowledge_map["topics"], and every value is a non-empty list of
\* Exercise leaves.
C5_TopicsMatchMap ==
    (pc = "returned" /\ run = 1) =>
        /\ DOMAIN knowledge_topics = DOMAIN knowledge_map.topics
        /\ \A slug \in DOMAIN knowledge_topics :
              /\ knowledge_topics[slug] # <<>>
              /\ \A i \in 1..Len(knowledge_topics[slug]) :
                    knowledge_topics[slug][i].kind = "Exercise"

\* C6: after the reconciliation every Topic's in_knowledge_map is the same on the
\* tree node and on its summary, is true exactly when the slug is a key of the
\* filtered map, and a flagged topic has a child and an Exercise leaf.
C6_FlagsAgree ==
    pc \in {"extracted", "returned"} =>
        \A n \in Topics(topictree) :
            /\ n.in_knowledge_map = node_cache["Topic"][n.slug].in_knowledge_map
            /\ n.in_knowledge_map <=> (n.slug \in DOMAIN knowledge_map.topics)
            /\ n.in_knowledge_map => (n.children # <<>> /\ HasExerciseBelow(n))

\* A topic stayed in the map, and another one was dropped from it and unflagged.
C6_Witness ==
    /\ pc = "returned"
    /\ run = 1
    /\ \E n \in Topics(topictree) : n.in_knowledge_map
    /\ \E n \in Topics(khan_topictree) :
          /\ n.in_knowledge_map
          /\ n.key[1] \in DOMAIN maplayout.topics \ DOMAIN knowledge_map.topics

\* C7: the reconciler run again on what its first run returned changes nothing.
C7_RerunChangesNothing ==
    (pc = "returned" /\ run = 2) =>
        /\ knowledge_map = first[1].knowledge_map
        /\ knowledge_topics = first[1].knowledge_topics
        /\ topictree = first[1].topictree
        /\ node_cache = first[1].node_cache

\* The polylines served with the map, before the cleanup.
Served == maplayout.polylines

Matched(pt) ==
    \E slug \in DOMAIN knowledge_map.topics :
        pt[1] = knowledge_map.topics[slug].x /\ pt[2] = knowledge_map.topics[slug].y

FullyMatched(path) == \A i \in 1..Len(path) : Matched(path[i])

\* C8: clean_orphaned_polylines keeps exactly the polylines all of whose points
\* are the point of a topic left in the map, whole and in their order.
C8_PolylinesKeptWhole ==
    (pc = "returned" /\ run = 1) =>
        knowledge_map.polylines = SelectSeq(Served, FullyMatched)

\* A polyline of three points, one of them unmatched, went; another one stayed.
C8_Witness ==
    /\ pc = "returned"
    /\ run = 1
    /\ knowledge_map.polylines # <<>>
    /\ \E i \in 1..Len(Served) :
          /\ Len(Served[i]) = 3
          /\ Cardinality({k \in 1..3 : ~Matched(Served[i][k])}) = 1

\* The videos, the exercises and the topics with one of them below, in preorder.
Keepers(tree) ==
    LET keep(n) == \/ n.kind \in {"Video", "Exercise"}
                   \/ \E d \in Descendants(n) : d.kind \in {"Video", "Exercise"}
        kept == SelectSeq(Nodes(tree), keep)
    IN [i \in 1..Len(kept) |-> <<kept[i].kind, kept[i].path>>]

NoChildlessTopic ==
    \A n \in Descendants(topictree) : n.kind = "Topic" => n.children # <<>>

\* C9: in the tree rebuild_topictree returns no Topic but the root is without
\* children, and the childless-topic pass removes no Video, no Exercise and no
\* Topic that has one of them below it.
C9_NoChildlessTopics ==
    /\ [](pc = "topictree" => NoChildlessTopic)
    /\ [][pc = "annotated" => Keepers(topictree') = Keepers(topictree)]_vars

\* The topic t2 lost its only exercise, and t1, left with nothing, went with it.
C9_Witness ==
    /\ pc = "topictree"
    /\ Len(khan_topictree.children) = 2
    /\ khan_topictree.children[1].kind = "Topic"
    /\ Len(khan_topictree.children[1].children) = 1
    /\ khan_topictree.children[1].children[1].kind = "Topic"
    /\ Len(khan_topictree.children[1].children[1].children) = 1
    /\ khan_topictree.children[1].children[1].children[1].key = Some("e2")
    /\ Len(topictree.children) = 1
    /\ topictree.children[1].kind = "Video"

\* C10: scrub_knowledge_map does not raise on a map slug that the node cache's
\* Topic table lacks.
C10_ScrubDoesNotRaise ==
    (\E slug \in DOMAIN maplayout.topics : slug \notin DOMAIN cache_table(node_cache, "Topic"))
        => pc # "abort:scrub"

\* The slugs of the Exercise nodes of a tree.
ExerciseSlugs(tree) == {n.slug : n \in {x \in NodeSet(tree) : x.kind = "Exercise"}}

\* C11: the list recurse_nodes_to_delete_exercise returns holds exactly the slugs
\* of the Exercise nodes that the pass removed from the tree.
C11_ReturnsDeletedSlugs ==
    [][(pc = "normalized" /\ remove_unknown_exercises) =>
          SeqToSet(slugs_deleted') = ExerciseSlugs(topictree) \ ExerciseSlugs(topictree')]_vars

\* The nodes of the downloaded tree that the normalizer visits and that lack
\* their kind's slug field.
RECURSIVE Visited(_)
RECURSIVE VisitedIn(_, _)
VisitedIn(children, i) ==
    IF i > Len(children) THEN {}
    ELSE LET child == children[i]
             dropped == \/ child.kind \in kind_blacklist
                        \/ child.key # None /\ child.key[1] \in slug_blacklist
         IN (IF dropped THEN {} ELSE Visited(child)) \cup VisitedIn(children, i + 1)

Visited(node) ==
    {node} \cup (IF whitelist_children(node.kind) THEN VisitedIn(node.children, 1) ELSE {})

MissingSlug == {n \in Visited(khan_topictree) : n.key = None}

\* C12: the normalizer does not abort on a tree with a node whose slug field is
\* missing, at the root or below it; normalization runs to its end.
C12_MissingSlugDoesNotAbort ==
    MissingSlug # {} => pc # "abort:normalize"

\* The paths of the Exercise nodes of a tree, in preorder, and of those whose
\* file is there.
ExercisePaths(tree) ==
    LET is_exercise(n) == n.kind = "Exercise"
        ex == SelectSeq(Nodes(tree), is_exercise)
    IN [i \in 1..Len(ex) |-> ex[i].path]

KnownExercisePaths(tree) ==
    LET is_known(n) == n.kind = "Exercise" /\ n.slug \in existing
        ex == SelectSeq(Nodes(tree), is_known)
    IN [i \in 1..Len(ex) |-> ex[i].path]

AfterPruner == pc \notin {"start", "normalized", "abort:normalize"}

\* C13: with pruning on, from the pruner's step onwards every Exercise node of the
\* tree has its local file, and the step removes no Exercise that has one; with
\* pruning off the step removes no Exercise at all.
C13_PrunerRemovesUnknownOnly ==
    /\ []((AfterPruner /\ remove_unknown_exercises) =>
            \A n \in NodeSet(topictree) : n.kind = "Exercise" => n.slug \in existing)
    /\ [][pc = "normalized" =>
            ExercisePaths(topictree') =
                IF remove_unknown_exercises
                THEN KnownExercisePaths(topictree)
                ELSE ExercisePaths(topictree)]_vars

\* The pruner has run on a tree with an exercise that has its file next to two
\* that have none, and the known one is still there.
C13_Witness ==
    /\ pc = "pruned"
    /\ remove_unknown_exercises
    /\ \E t \in NodeSet(khan_topictree) :
          /\ Len(t.children) = 3
          /\ t.children[1].key = Some("e2")
          /\ t.children[2].key = Some("e2")
          /\ t.children[3].key = Some("e1")
          /\ t.children[3].kind = "Exercise"
    /\ ExercisePaths(topictree) # <<>>

====
